---- MODULE Spec2Model ----
(***************************************************************************)
(* Job lifecycle core of the Ghost listener                                *)
(* (GhostSystems/python/product_generator.py): the Firestore watcher       *)
(* (on_snapshot), the dispatcher (process_job), the two fulfillment        *)
(* workers (create_printful_product, create_digital_product) and the       *)
(* retry wrapper (post_to_printful).                                       *)
(*                                                                         *)
(* A job document is a function from the keys it carries to their values,  *)
(* so that dict.get(k, default) and dict[k] (KeyError) are modelled as the *)
(* code computes them.  Every per-job thread is one entry of `tasks`; its  *)
(* `pc` is its position in process_job and the worker it called.           *)
(***************************************************************************)
EXTENDS Integers, Sequences, FiniteSets, TLC

VARIABLES
    env,          \* names of the credential settings that are set (os.environ)
    jobs,         \* the store: job id -> job document
    tasks,        \* the process_job threads, in the order they were started
    remote,       \* job id -> number of remote products created for it
    outbound,     \* job id -> number of outbound requests sent for it
    delivered,    \* job ids for which an 'added' change has been delivered
    redeliveries, \* how many more times the store will redeliver an 'added'
    callback_done,\* the threading.Event set at the end of on_snapshot
    json_error    \* what response.json() raises on a body that is not JSON:
                  \* "RequestException" (requests >= 2.27), "ValueError" (older),
                  \* or "never" when the backend only sends bodies that decode

vars == <<env, jobs, tasks, remote, outbound, delivered, redeliveries, callback_done,
          json_error>>

(***************************************************************************)
(* Bounds of the model                                                     *)
(***************************************************************************)
MaxRedeliver == 1      \* redelivered 'added' notifications per run
MaxThreads == 2        \* process_job threads started per run

JobIds == {"jobA", "jobB"}

(***************************************************************************)
(* Program constants                                                       *)
(***************************************************************************)
Retries == 3           \* post_to_printful(retries=3)
BaseDelay == 5         \* post_to_printful(delay=5)

CredNames == {"PRINTFUL_API_KEY", "SHOPIFY_STORE_URL", "SHOPIFY_API_KEY",
              "SHOPIFY_API_PASSWORD"}
ShopifyCreds == {"SHOPIFY_STORE_URL", "SHOPIFY_API_KEY", "SHOPIFY_API_PASSWORD"}

\* VARIANT_MAP: productType -> Printful variant id (0 stands for "no entry")
VARIANT_MAP(pt) ==
    CASE pt = "Mug" -> 7710
      [] pt = "T-Shirt" -> 4017
      [] OTHER -> 0

NoType == "<none>"     \* job_data.get("productType") when the key is absent

ProductTypes == {"T-Shirt", "Mug", "AI Prompt Package", "Tech Gadget", "prompt_pack"}
ImageUrls == {"", "https://x/img.png"}
Prices == {10}
OptionalKeys == {"productType", "price", "imageUrl", "autoPublish"}

(***************************************************************************)
(* Job documents                                                           *)
(***************************************************************************)
\* dict.get(k, default)
Get(d, k, default) == IF k \in DOMAIN d THEN d[k] ELSE default

\* DocumentReference.update(fields): merge of the named fields only
Update(d, fields) ==
    [k \in DOMAIN d \cup DOMAIN fields |->
        IF k \in DOMAIN fields THEN fields[k] ELSE d[k]]

\* a pending job document carrying the keys `keys`
MkDoc(keys, pt, pr, im, ap) ==
    [k \in {"status"} \cup keys |->
        CASE k = "status" -> "pending"
          [] k = "productType" -> pt
          [] k = "price" -> pr
          [] k = "imageUrl" -> im
          [] k = "autoPublish" -> ap]

AllDocs ==
    {MkDoc(keys, pt, pr, im, ap) :
        keys \in SUBSET OptionalKeys, pt \in ProductTypes, pr \in Prices,
        im \in ImageUrls, ap \in BOOLEAN}

\* a physical-goods job and a digital job, both with an image
MugDoc ==
    MkDoc({"productType", "price", "imageUrl", "autoPublish"}, "Mug", 10,
          "https://x/img.png", FALSE)
PromptDoc ==
    MkDoc({"productType", "price", "imageUrl"}, "AI Prompt Package", 10,
          "https://x/img.png", FALSE)

ProductType(d) == Get(d, "productType", NoType)
Status(j) == jobs[j]["status"]

(***************************************************************************)
(* Threads                                                                 *)
(***************************************************************************)
\* threading.Thread(target=process_job, args=(change.document,))
NewTask(j) ==
    [job |-> j, pc |-> "claim", claimed |-> FALSE, success |-> FALSE,
     i |-> 0, delay |-> BaseDelay, attempts |-> 0, failures |-> 0, slept |-> <<>>,
     calls |-> 0, created |-> 0, raised |-> FALSE, final |-> "none",
     invoked |-> <<>>, payload |-> <<>>, badbody |-> 0, sent |-> <<>>]

TaskIds == 1..Len(tasks)
Doc(t) == jobs[tasks[t].job]
SetTask(t, r) == tasks' = [tasks EXCEPT ![t] = r]


(***************************************************************************)
(* The store's subscription and the watcher (start_listener, on_snapshot)  *)
(***************************************************************************)
ChangeTypes == {"ADDED", "MODIFIED", "REMOVED"}
Changes == [type : ChangeTypes, doc : JobIds]

\* a batch carries at most one change per document
RECURSIVE BatchesOver(_)
BatchesOver(ids) ==
    {<<>>} \cup UNION {{<<c>> \o rest : c \in {x \in Changes : x.doc = j},
                                      rest \in BatchesOver(ids \ {j})} : j \in ids}

Batches == BatchesOver(JobIds)

\* the 'added' changes of a batch that repeat an earlier delivery
Redelivered(batch) ==
    {n \in 1..Len(batch) :
        /\ batch[n].type = "ADDED"
        /\ batch[n].doc \in delivered}

\* the query of the subscription: status == 'pending'
MatchesQuery(j) == j \in DOMAIN jobs /\ Status(j) = "pending"

\* the changes the filtered subscription can report for a document: 'added'
\* while it matches the query (again after a reconnect), 'modified' while it
\* still matches, 'removed' once it has left the query
CanReport(c) ==
    /\ c.doc \in DOMAIN jobs
    /\ c.type = "ADDED" => MatchesQuery(c.doc)
    /\ c.type = "MODIFIED" => MatchesQuery(c.doc) /\ c.doc \in delivered
    /\ c.type = "REMOVED" => ~MatchesQuery(c.doc) /\ c.doc \in delivered

\* a loop that starts a thread for every change, whatever its type
RECURSIVE StartThreadsForEveryChange(_, _)
StartThreadsForEveryChange(running, batch) ==
    IF batch = <<>> THEN running
    ELSE StartThreadsForEveryChange(Append(running, NewTask(Head(batch).doc)),
                                    Tail(batch))

\* on_snapshot's loop: one thread per change of type ADDED, in batch order
RECURSIVE StartThreads(_, _)
StartThreads(running, batch) ==
    IF batch = <<>> THEN running
    ELSE StartThreads(
            IF Head(batch).type = "ADDED"
            THEN Append(running, NewTask(Head(batch).doc))
            ELSE running,
            Tail(batch))

\* a callback that runs process_job itself: the next batch is taken only when
\* the jobs of the earlier ones are finished
on_snapshotInline(batch) ==
    /\ \A t \in TaskIds : tasks[t].pc \in {"done", "crashed"}
    /\ \A n \in 1..Len(batch) : CanReport(batch[n])
    /\ Cardinality(Redelivered(batch)) <= redeliveries
    /\ Len(StartThreads(tasks, batch)) <= MaxThreads
    /\ tasks' = StartThreads(tasks, batch)
    /\ delivered' = delivered \cup
                    {batch[n].doc : n \in {m \in 1..Len(batch) : batch[m].type = "ADDED"}}
    /\ redeliveries' = redeliveries - Cardinality(Redelivered(batch))
    /\ callback_done' = TRUE
    /\ UNCHANGED <<env, jobs, remote, outbound, json_error>>

on_snapshot(batch) ==
    /\ \A n \in 1..Len(batch) : CanReport(batch[n])
    /\ Cardinality(Redelivered(batch)) <= redeliveries
    /\ Len(StartThreads(tasks, batch)) <= MaxThreads
    /\ tasks' = StartThreads(tasks, batch)
    /\ delivered' = delivered \cup
                    {batch[n].doc : n \in {m \in 1..Len(batch) : batch[m].type = "ADDED"}}
    /\ redeliveries' = redeliveries - Cardinality(Redelivered(batch))
    /\ callback_done' = TRUE
    /\ UNCHANGED <<env, jobs, remote, outbound, json_error>>

(***************************************************************************)
(* The dispatcher (process_job)                                            *)
(***************************************************************************)
\* job_ref.update(fields) when the store accepts the write
StoreUpdate(j, fields) == [jobs EXCEPT ![j] = Update(@, fields)]

\* a claim that is a conditional update: a job that is no longer pending is
\* left alone and the thread returns
ClaimWriteIfPending(t) ==
    /\ tasks[t].pc = "claim"
    /\ IF Status(tasks[t].job) = "pending"
       THEN \E ok \in BOOLEAN :
              /\ jobs' = IF ok THEN StoreUpdate(tasks[t].job, [status |-> "processing"])
                         ELSE jobs
              /\ SetTask(t, [tasks[t] EXCEPT !.pc = "route", !.claimed = ok])
       ELSE /\ jobs' = jobs
            /\ SetTask(t, [tasks[t] EXCEPT !.pc = "done"])
    /\ UNCHANGED <<env, remote, outbound, delivered, redeliveries, callback_done, json_error>>

\* a claim that is a hard gate: a rejected claim write abandons the job
ClaimWriteOrAbandon(t) ==
    /\ tasks[t].pc = "claim"
    /\ \E ok \in BOOLEAN :
          /\ jobs' = IF ok THEN StoreUpdate(tasks[t].job, [status |-> "processing"])
                     ELSE jobs
          /\ SetTask(t, [tasks[t] EXCEPT !.pc = IF ok THEN "route" ELSE "done",
                                         !.claimed = ok])
    /\ UNCHANGED <<env, remote, outbound, delivered, redeliveries, callback_done, json_error>>

\* lines 236-242: the claim write; a rejected write is logged and ignored
ClaimWrite(t) ==
    /\ tasks[t].pc = "claim"
    /\ \E ok \in BOOLEAN :
          /\ jobs' = IF ok THEN StoreUpdate(tasks[t].job, [status |-> "processing"])
                     ELSE jobs
          /\ SetTask(t, [tasks[t] EXCEPT !.pc = "route", !.claimed = ok])
    /\ UNCHANGED <<env, remote, outbound, delivered, redeliveries, callback_done, json_error>>

\* a routing table that sends the unsupported category to the storefront worker
RouteOfSupportingGadget(pt) ==
    CASE pt \in {"T-Shirt", "Mug"} -> "printful"
      [] pt \in {"AI Prompt Package", "Tech Gadget"} -> "digital"
      [] OTHER -> "unknown"

\* a routing table that sends every other category to the storefront worker
RouteOfDigitalByDefault(pt) ==
    CASE pt \in {"T-Shirt", "Mug"} -> "printful"
      [] pt = "Tech Gadget" -> "unsupported"
      [] OTHER -> "digital"

\* lines 247-259: the routing table
RouteOf(pt) ==
    CASE pt \in {"T-Shirt", "Mug"} -> "printful"
      [] pt = "AI Prompt Package" -> "digital"
      [] pt = "Tech Gadget" -> "unsupported"
      [] OTHER -> "unknown"

\* a dispatcher that routes a job again after a failure outcome
ReturnOrReroute(r, ok) ==
    IF ~ok /\ Len(r.invoked) = 1
    THEN [r EXCEPT !.pc = "route"]
    ELSE [r EXCEPT !.success = ok, !.pc = "final"]

\* a worker returns `ok` to process_job (success = worker(job_doc))
Return(r, ok) == [r EXCEPT !.success = ok, !.pc = "final"]

\* process_job without its except clause: the exception ends the thread
PropagateException(r) == [r EXCEPT !.raised = TRUE, !.pc = "crashed"]

\* lines 261-263: except Exception in process_job
HandleException(r) == [r EXCEPT !.raised = TRUE, !.success = FALSE, !.pc = "final"]

Route(t) ==
    /\ tasks[t].pc = "route"
    /\ LET route == RouteOf(ProductType(Doc(t)))
       IN  SetTask(t, IF route \in {"printful", "digital"}
                      THEN [tasks[t] EXCEPT !.pc = route, !.invoked = Append(@, route)]
                      ELSE Return(tasks[t], FALSE))
    /\ UNCHANGED <<env, jobs, remote, outbound, delivered, redeliveries, callback_done, json_error>>

\* an exception the worker does not catch itself reaches process_job
WorkerRaises(t) ==
    /\ tasks[t].pc \in {"printful", "digital"}
    /\ SetTask(t, HandleException(tasks[t]))
    /\ UNCHANGED <<env, jobs, remote, outbound, delivered, redeliveries, callback_done, json_error>>

\* lines 265-271: the final status write; a rejected write raises out of process_job
\* a dispatcher that puts a failed job back in the queue
FinalStatusRequeue(success) == IF success THEN "complete" ELSE "pending"

\* lines 266-271: the status the last write carries
FinalStatus(success) == IF success THEN "complete" ELSE "failed"

FinalWrite(t) ==
    /\ tasks[t].pc = "final"
    /\ LET value == FinalStatus(tasks[t].success)
       IN  \E ok \in BOOLEAN :
              /\ jobs' = IF ok THEN StoreUpdate(tasks[t].job, [status |-> value])
                         ELSE jobs
              /\ SetTask(t, [tasks[t] EXCEPT !.final = value,
                                             !.pc = IF ok THEN "done" ELSE "crashed"])
    /\ UNCHANGED <<env, remote, outbound, delivered, redeliveries, callback_done, json_error>>

(***************************************************************************)
(* Worker 1: create_printful_product and post_to_printful                  *)
(***************************************************************************)
\* Python truthiness of job_data.get("imageUrl")
Truthy(v) == v # ""

\* the checks without the one on imageUrl
PrintfulReadyWithoutImage(d) ==
    /\ "PRINTFUL_API_KEY" \in env
    /\ "price" \in DOMAIN d
    /\ VARIANT_MAP(ProductType(d)) # 0

\* lines 88-110: the checks before any request is built
PrintfulReady(d) ==
    /\ "PRINTFUL_API_KEY" \in env
    /\ Truthy(Get(d, "imageUrl", ""))
    /\ "price" \in DOMAIN d
    /\ VARIANT_MAP(ProductType(d)) # 0

\* a worker that always asks for a published product
PublishFlagAlways(d) == TRUE

\* lines 101 and 129: payload["publish"] = job_data.get("autoPublish", False)
PublishFlag(d) == Get(d, "autoPublish", FALSE)

CreatePrintfulProduct(t) ==
    /\ tasks[t].pc = "printful"
    /\ SetTask(t, IF PrintfulReady(Doc(t))
                  THEN [tasks[t] EXCEPT !.pc = "post", !.i = 0, !.delay = BaseDelay,
                                        !.payload = <<PublishFlag(Doc(t))>>]
                  ELSE Return(tasks[t], FALSE))
    /\ UNCHANGED <<env, jobs, remote, outbound, delivered, redeliveries, callback_done, json_error>>

\* what one requests.post + raise_for_status can do
\* "ok": a success status and a JSON body; "error": a transport error or an
\* error status (RequestException); "undecodable": a success status with a body
\* that is not JSON, so that response.json() at line 66 raises
PostOutcomes ==
    {"ok", "error"} \cup (IF json_error = "never" THEN {} ELSE {"undecodable"})

\* line 67: except requests.exceptions.RequestException
Caught(out) ==
    \/ out = "error"
    \/ out = "undecodable" /\ json_error = "RequestException"

\* an off-by-one retry test
MoreAttemptsOffByOne(i) == i < Retries

\* line 69: another attempt follows a failed one
MoreAttempts(i) == i < Retries - 1

\* a backoff that does not grow
NextDelayConstant(d) == d

\* line 71: delay *= 2
NextDelay(d) == d * 2

\* lines 61-74: one pass of the retry loop
PostAttempt(t) ==
    /\ tasks[t].pc = "post"
    /\ \E out \in PostOutcomes :
          LET r == [tasks[t] EXCEPT !.attempts = @ + 1, !.calls = @ + 1,
                                    !.sent = @ \o tasks[t].payload]
              j == tasks[t].job
          IN  /\ outbound' = [outbound EXCEPT ![j] = @ + 1]
              /\ remote' = IF out = "error" THEN remote
                            ELSE [remote EXCEPT ![j] = @ + 1]
              /\ LET q == CASE out = "ok" -> [r EXCEPT !.created = @ + 1]
                            [] out = "error" -> [r EXCEPT !.failures = @ + 1]
                            [] out = "undecodable" ->
                                  [r EXCEPT !.created = @ + 1, !.badbody = @ + 1]
                 IN  SetTask(t, IF out = "ok" THEN Return(q, TRUE)
                                ELSE IF Caught(out) /\ MoreAttempts(q.i)
                                     THEN [q EXCEPT !.pc = "sleep"]
                                     ELSE Return(q, FALSE))
    /\ UNCHANGED <<env, jobs, delivered, redeliveries, callback_done, json_error>>

\* a wait that never returns
SleepForever(t) ==
    /\ tasks[t].pc = "sleep"
    /\ UNCHANGED vars

\* lines 70-71 and 61: time.sleep(delay); delay *= 2; the next i of
\* range(retries).  A loop that ran out would return None, which the worker's
\* result.get turns into an exception and so into False.
Sleep(t) ==
    /\ tasks[t].pc = "sleep"
    /\ LET r == [tasks[t] EXCEPT !.slept = Append(@, tasks[t].delay),
                                 !.delay = NextDelay(@),
                                 !.i = @ + 1]
       IN  SetTask(t, IF r.i < Retries THEN [r EXCEPT !.pc = "post"]
                      ELSE Return(r, FALSE))
    /\ UNCHANGED <<env, jobs, remote, outbound, delivered, redeliveries, callback_done, json_error>>

(***************************************************************************)
(* Worker 2: create_digital_product                                        *)
(***************************************************************************)
\* a credential check with any() in place of all()
DigitalReadyAnyCred(d) ==
    /\ ShopifyCreds \cap env # {}
    /\ "price" \in DOMAIN d

\* lines 160-172: credentials and required fields
DigitalReady(d) ==
    /\ ShopifyCreds \subseteq env
    /\ "price" \in DOMAIN d

CreateDigitalProduct(t) ==
    /\ tasks[t].pc = "digital"
    /\ SetTask(t, IF DigitalReady(Doc(t))
                  THEN [tasks[t] EXCEPT !.pc = "save"]
                  ELSE Return(tasks[t], FALSE))
    /\ UNCHANGED <<env, jobs, remote, outbound, delivered, redeliveries, callback_done, json_error>>

\* new_product.save(): True, False (validation errors) or an exception
SaveOutcomes == {"saved", "invalid", "raise"}

\* a worker that marks the job complete itself once the product is saved
SaveAndMarkComplete(t) ==
    /\ tasks[t].pc = "save"
    /\ \E out \in SaveOutcomes :
          LET r == [tasks[t] EXCEPT !.calls = @ + 1]
              j == tasks[t].job
          IN  /\ outbound' = [outbound EXCEPT ![j] = @ + 1]
              /\ IF out = "saved"
                 THEN /\ remote' = [remote EXCEPT ![j] = @ + 1]
                      /\ jobs' = StoreUpdate(j, [status |-> "complete"])
                      /\ SetTask(t, IF Truthy(Get(Doc(t), "imageUrl", ""))
                                    THEN [r EXCEPT !.created = @ + 1, !.pc = "image"]
                                    ELSE Return([r EXCEPT !.created = @ + 1], TRUE))
                 ELSE /\ remote' = remote
                      /\ jobs' = jobs
                      /\ SetTask(t, Return(r, FALSE))
    /\ UNCHANGED <<env, delivered, redeliveries, callback_done, json_error>>

\* lines 200-215: the save that creates the product
Save(t) ==
    /\ tasks[t].pc = "save"
    /\ \E out \in SaveOutcomes :
          LET r == [tasks[t] EXCEPT !.calls = @ + 1]
              j == tasks[t].job
          IN  /\ outbound' = [outbound EXCEPT ![j] = @ + 1]
              /\ IF out = "saved"
                 THEN /\ remote' = [remote EXCEPT ![j] = @ + 1]
                      /\ SetTask(t, IF Truthy(Get(Doc(t), "imageUrl", ""))
                                    THEN [r EXCEPT !.created = @ + 1, !.pc = "image"]
                                    ELSE Return([r EXCEPT !.created = @ + 1], TRUE))
                 ELSE /\ remote' = remote
                      /\ SetTask(t, Return(r, FALSE))
    /\ UNCHANGED <<env, jobs, delivered, redeliveries, callback_done, json_error>>

\* lines 206-212: the second save, with the image; its result is not looked
\* at, an exception goes to the worker's except clause (lines 217-219)
ImageSave(t) ==
    /\ tasks[t].pc = "image"
    /\ \E out \in SaveOutcomes :
          /\ outbound' = [outbound EXCEPT ![tasks[t].job] = @ + 1]
          /\ SetTask(t, Return([tasks[t] EXCEPT !.calls = @ + 1], out # "raise"))
    /\ UNCHANGED <<env, jobs, remote, delivered, redeliveries, callback_done, json_error>>

(***************************************************************************)
(* Specifications                                                          *)
(***************************************************************************)
InitWith(envs, stores, r, json_errors) ==
    /\ json_error \in json_errors
    /\ env \in envs
    /\ jobs \in stores
    /\ tasks = <<>>
    /\ remote = [j \in DOMAIN jobs |-> 0]
    /\ outbound = [j \in DOMAIN jobs |-> 0]
    /\ delivered = {}
    /\ redeliveries = r
    /\ callback_done = FALSE

\* two pending jobs, every credential set, a store that may redeliver, a
\* backend whose success bodies decode
Init == InitWith({CredNames}, {[j \in JobIds |-> IF j = "jobA" THEN MugDoc ELSE PromptDoc]},
                 MaxRedeliver, {"never"})

\* one pending job with any fields, any credentials, each change delivered
\* once, either version of the HTTP library
InitSingle == InitWith(SUBSET CredNames, [{"jobA"} -> AllDocs], 0,
                       {"RequestException", "ValueError"})

(***************************************************************************)
(* The Producer: Oracle/brain.py                                           *)
(***************************************************************************)
\* brain.py lines 170, 198, 261: the productType of the documents it builds
ProducerTypes == {"prompt_pack", "automation_kit", "bundle"}

\* brain.py lines 168-170, 196-198, 259-261: status pending, a productType, no
\* price, imageUrl or autoPublish key (the price is under "pricing")
ProducerDocs == {[status |-> "pending", productType |-> pt] : pt \in ProducerTypes}

\* brain.py lines 358-359, 365-366, 371-372, 381-382: ref = col.document();
\* ref.set(doc), a new document under an id the store has not used
create_products_once ==
    /\ \E j \in JobIds \ DOMAIN jobs : \E d \in ProducerDocs :
          /\ jobs' = (j :> d) @@ jobs
          /\ remote' = (j :> 0) @@ remote
          /\ outbound' = (j :> 0) @@ outbound
    /\ UNCHANGED <<env, tasks, delivered, redeliveries, callback_done, json_error>>

Next ==
    \/ \E batch \in Batches : on_snapshot(batch)
    \/ \E t \in TaskIds : ClaimWrite(t)
    \/ \E t \in TaskIds : Route(t)
    \/ \E t \in TaskIds : WorkerRaises(t)
    \/ \E t \in TaskIds : CreatePrintfulProduct(t)
    \/ \E t \in TaskIds : PostAttempt(t)
    \/ \E t \in TaskIds : Sleep(t)
    \/ \E t \in TaskIds : CreateDigitalProduct(t)
    \/ \E t \in TaskIds : Save(t)
    \/ \E t \in TaskIds : ImageSave(t)
    \/ \E t \in TaskIds : FinalWrite(t)

\* one job of another writer in the store, every credential set, each change
\* delivered once; the Producer adds jobs while the Dispatcher runs
InitProducer ==
    InitWith({CredNames}, [{"jobA"} -> {MugDoc, PromptDoc}], 0, {"never"})

NextProducer == Next \/ create_products_once

\* the next statement of thread t
TaskStep(t) ==
    /\ t \in TaskIds
    /\ \/ ClaimWrite(t) \/ Route(t) \/ WorkerRaises(t)
       \/ CreatePrintfulProduct(t) \/ PostAttempt(t) \/ Sleep(t)
       \/ CreateDigitalProduct(t) \/ Save(t) \/ ImageSave(t)
       \/ FinalWrite(t)

\* line 294: threading.Thread(target=process_job, ...).start(): the interpreter
\* keeps scheduling a started thread until it returns
Fairness == \A t \in 1..MaxThreads : WF_vars(TaskStep(t))

Spec == Init /\ [][Next]_vars
SpecProducer == InitProducer /\ [][NextProducer]_vars
SpecSingle == InitSingle /\ [][Next]_vars
SpecSingleFair == InitSingle /\ [][Next]_vars /\ Fairness


(***************************************************************************)
(* Properties                                                              *)
(***************************************************************************)
Ended(t) == tasks[t].pc \in {"final", "done", "crashed"}
TasksOf(j) == {t \in TaskIds : tasks[t].job = j}

\* the product types the claims name
PodTypes == {"T-Shirt", "Mug"}
DigitalTypes == {"AI Prompt Package"}
TypeOfTask(t) == ProductType(Doc(t))

AllowedEdges ==
    {<<"pending", "processing">>, <<"processing", "complete">>,
     <<"processing", "failed">>}

\* C1: every change of a job's status is pending->processing,
\* processing->complete or processing->failed.
C1_OnlyLifecycleEdges ==
    [][\A j \in DOMAIN jobs :
          jobs'[j]["status"] # jobs[j]["status"]
              => <<jobs[j]["status"], jobs'[j]["status"]>> \in AllowedEdges]_vars

\* C2: once a job's status is complete, no later write changes its document.
C2_CompleteIsFrozen ==
    [][\A j \in DOMAIN jobs :
          jobs[j]["status"] = "complete" => jobs'[j] = jobs[j]]_vars

\* C3: for each job at most one process_job invocation gets past the claim
\* step (writes the claim and goes on to process the job).
C3_OneClaimPerJob ==
    \A j \in DOMAIN jobs :
        Cardinality({t \in TasksOf(j) : tasks[t].pc # "claim"}) <= 1

\* C4: the claim is an unconditional field update: whatever the job's status
\* was, a thread leaves the claim step for the routing step, and a write the
\* store accepts leaves the status at processing.
C4_ClaimIsUnconditional ==
    [][\A t \in TaskIds :
          tasks[t].pc = "claim" /\ tasks'[t].pc # "claim"
              => /\ tasks'[t].pc = "route"
                 /\ tasks'[t].claimed => jobs'[tasks[t].job]["status"] = "processing"]_vars

\* C4 (witness): two threads of one job have both written processing and both
\* created a remote product.
C4_TwoRemoteProducts ==
    \E t1 \in TaskIds : \E t2 \in TaskIds \ {t1} :
        /\ tasks[t1].job = tasks[t2].job
        /\ tasks[t1].claimed /\ tasks[t2].claimed
        /\ tasks[t1].created >= 1 /\ tasks[t2].created >= 1
        /\ remote[tasks[t1].job] = 2


(***************************************************************************)
(* Single dispatch: the outcome of one process_job run                     *)
(***************************************************************************)
\* the job's status once the thread has returned from an accepted final write
EndsIn(t, status) == tasks[t].pc = "done" => Status(tasks[t].job) = status

\* the thread never sends a request and ends in failed
FailsLocally(t) ==
    /\ tasks[t].calls = 0
    /\ outbound[tasks[t].job] = 0
    /\ Ended(t) => ~tasks[t].success
    /\ tasks[t].final \in {"none", "failed"}
    /\ EndsIn(t, "failed")

\* C5: a job whose productType has no fulfillment route ends in failed and causes
\* no outbound call.
C5_UnroutedFails ==
    \A t \in TaskIds :
        TypeOfTask(t) \notin PodTypes \cup DigitalTypes
            => FailsLocally(t) /\ tasks[t].pc \in {"claim", "route", "final", "done", "crashed"}

C5_Witness ==
    \E t \in TaskIds :
        /\ ProductType(Doc(t)) = "Tech Gadget"
        /\ tasks[t].pc = "done"
        /\ Status(tasks[t].job) = "failed"

\* a field the job's route requires is absent from the document
MissingRequired(d) ==
    \/ ProductType(d) \in PodTypes
       /\ ("imageUrl" \notin DOMAIN d \/ "price" \notin DOMAIN d)
    \/ ProductType(d) \in DigitalTypes /\ "price" \notin DOMAIN d

\* C6: a job that lacks a field its route requires ends in failed before any
\* outbound call.
C6_MissingFieldFails ==
    \A t \in TaskIds : MissingRequired(Doc(t)) => FailsLocally(t)

C6_Witness ==
    \E t \in TaskIds :
        /\ ProductType(Doc(t)) = "Mug"
        /\ "PRINTFUL_API_KEY" \in env
        /\ "price" \in DOMAIN Doc(t)
        /\ "imageUrl" \notin DOMAIN Doc(t)
        /\ tasks[t].pc = "done"
        /\ Status(tasks[t].job) = "failed"

\* the job is valid for its route: fields and credentials are there
ValidJob(d) ==
    \/ /\ ProductType(d) \in PodTypes
       /\ "PRINTFUL_API_KEY" \in env
       /\ "price" \in DOMAIN d
       /\ "imageUrl" \in DOMAIN d /\ d["imageUrl"] # ""
    \/ /\ ProductType(d) \in DigitalTypes
       /\ ShopifyCreds \subseteq env
       /\ "price" \in DOMAIN d

\* the first request of the thread created the remote product
CreatedOnFirstAttempt(t) ==
    /\ tasks[t].created = 1
    /\ tasks[t].failures = 0
    /\ tasks[t].badbody = 0

\* C7: a valid job whose remote product-creation call succeeds on its first
\* attempt ends in complete.
C7_FirstAttemptSuccessCompletes ==
    \A t \in TaskIds :
        ValidJob(Doc(t)) /\ CreatedOnFirstAttempt(t) /\ Ended(t)
            => /\ tasks[t].success
               /\ tasks[t].final \in {"none", "complete"}
               /\ EndsIn(t, "complete")

\* C8: two transient failures and then a success are exactly 3 attempts, with
\* sleeps of d and 2d, and the job ends in complete.
C8_TwoFailuresThenSuccess ==
    \A t \in TaskIds :
        (/\ TypeOfTask(t) \in PodTypes
         /\ tasks[t].failures = 2 /\ tasks[t].created = 1 /\ tasks[t].badbody = 0)
            => /\ tasks[t].attempts = 3
               /\ tasks[t].calls = 3
               /\ tasks[t].slept = <<BaseDelay, 2 * BaseDelay>>
               /\ Ended(t) /\ tasks[t].success
               /\ tasks[t].final \in {"none", "complete"}
               /\ EndsIn(t, "complete")

C8_Witness ==
    \E t \in TaskIds :
        /\ tasks[t].failures = 2 /\ tasks[t].created = 1 /\ tasks[t].badbody = 0
        /\ tasks[t].pc = "done"
        /\ Status(tasks[t].job) = "complete"

\* C9: when every attempt fails there are exactly Retries attempts, a sleep
\* between attempts and none after the last, and the job ends in failed.
C9_AllAttemptsFail ==
    \A t \in TaskIds :
        /\ tasks[t].attempts <= Retries
        /\ tasks[t].pc = "post" => Len(tasks[t].slept) = tasks[t].attempts
        /\ (TypeOfTask(t) \in PodTypes /\ Ended(t) /\ tasks[t].attempts > 0
                /\ tasks[t].failures = tasks[t].attempts)
            => /\ tasks[t].attempts = Retries
               /\ tasks[t].calls = Retries
               /\ Len(tasks[t].slept) = Retries - 1
               /\ ~tasks[t].success
               /\ tasks[t].final \in {"none", "failed"}
               /\ EndsIn(t, "failed")

C9_Witness ==
    \E t \in TaskIds :
        /\ tasks[t].failures = Retries
        /\ tasks[t].pc = "done"
        /\ Status(tasks[t].job) = "failed"

\* C10: an error raised during routing or in the worker call does not leave
\* process_job: the thread goes on to the final write, and writes failed.
C10_ErrorsBecomeFailed ==
    \A t \in TaskIds :
        tasks[t].raised
            => /\ Ended(t)
               /\ ~tasks[t].success
               /\ tasks[t].pc \in {"done", "crashed"} => tasks[t].final = "failed"
               /\ EndsIn(t, "failed")

C10_Witness ==
    \E t \in TaskIds :
        /\ tasks[t].raised
        /\ tasks[t].pc = "done"
        /\ Status(tasks[t].job) = "failed"

(***************************************************************************)
(* Status-write errors                                                     *)
(***************************************************************************)
\* C11: no error leaves a process_job thread, whatever the store and the
\* backends do: no thread ends by an exception.
C11_NothingEscapes ==
    \A t \in TaskIds : tasks[t].pc # "crashed"

\* C12: a thread whose claim write was rejected still routes, still calls the
\* worker of a valid job, and still attempts the final write that matches the
\* worker's outcome; every thread that has left process_job attempted it.
C12_RejectedClaimProceeds ==
    \A t \in TaskIds :
        /\ tasks[t].pc \in {"done", "crashed"}
              => tasks[t].final = IF tasks[t].success THEN "complete" ELSE "failed"
        /\ (~tasks[t].claimed /\ Ended(t) /\ ValidJob(Doc(t)) /\ ~tasks[t].raised)
              => tasks[t].calls >= 1
        /\ (~tasks[t].claimed /\ tasks[t].pc = "done" /\ tasks[t].success)
              => Status(tasks[t].job) = "complete"

C12_Witness ==
    \E t \in TaskIds :
        /\ ~tasks[t].claimed
        /\ tasks[t].calls >= 1
        /\ tasks[t].pc = "done"
        /\ Status(tasks[t].job) = "complete"

(***************************************************************************)
(* Routing                                                                 *)
(***************************************************************************)
\* the worker the claims expect for a product type
ExpectedWorker(pt) ==
    IF pt \in PodTypes THEN <<"printful">>
    ELSE IF pt \in DigitalTypes THEN <<"digital">>
    ELSE <<>>

\* C13: a process_job run selects at most one worker and calls it at most once:
\* once for a POD or storefront type, never for another type, and not again
\* after a failure outcome.
C13_OneWorkerCall ==
    \A t \in TaskIds :
        /\ Len(tasks[t].invoked) <= 1
        /\ tasks[t].pc \notin {"claim", "route"}
              => tasks[t].invoked = ExpectedWorker(TypeOfTask(t))
        /\ tasks[t].pc \in {"claim", "route"} => tasks[t].invoked = <<>>

C13_Witness ==
    \E t \in TaskIds :
        /\ tasks[t].invoked = <<"printful">>
        /\ tasks[t].failures = Retries
        /\ tasks[t].pc = "done"
        /\ Status(tasks[t].job) = "failed"

(***************************************************************************)
(* Single writer                                                           *)
(***************************************************************************)
\* the positions of a thread inside a fulfillment worker
WorkerPcs == {"printful", "post", "sleep", "digital", "save", "image"}

\* C14: a step a thread takes inside a worker leaves every job document as it
\* was; a document changes only by a step of process_job's claim or final write.
C14_WorkersLeaveJobAlone ==
    [][/\ \A t \in TaskIds :
             tasks[t].pc \in WorkerPcs /\ tasks'[t] # tasks[t] => jobs' = jobs
       /\ jobs' # jobs
             => \E t \in TaskIds :
                   /\ tasks[t].pc \in {"claim", "final"}
                   /\ tasks'[t].pc # tasks[t].pc]_vars

C14_Witness ==
    \E t \in TaskIds :
        /\ tasks[t].pc = "final"
        /\ tasks[t].created = 1
        /\ tasks[t].success
        /\ Status(tasks[t].job) = "processing"

(***************************************************************************)
(* The watcher                                                             *)
(***************************************************************************)
\* the threads a step has started
Started == (Len(tasks) + 1)..Len(tasks')

\* C15: a batch starts exactly one thread for each of its 'added' changes,
\* first deliveries and redeliveries alike, and none for its other changes.
C15_OneThreadPerAdded ==
    [][/\ Len(tasks') = Len(tasks) + Cardinality(delivered' \ delivered)
                                   + (redeliveries - redeliveries')
       /\ \A k \in Started : tasks'[k] = NewTask(tasks'[k].job)
       /\ \A k \in Started : tasks'[k].job \in delivered'
       /\ \A j \in delivered' \ delivered :
             Cardinality({k \in Started : tasks'[k].job = j}) = 1
       /\ \A k \in Started : \A m \in Started : tasks'[k].job = tasks'[m].job => k = m]_vars

C15_Witness ==
    /\ callback_done
    /\ Len(tasks) = 2
    /\ tasks[1].job = tasks[2].job
    /\ redeliveries = MaxRedeliver - 1

\* C16: the callback does not wait for the threads it started: whatever the
\* running threads are doing, a batch with the 'added' change of a pending job
\* not yet delivered can be taken (within the bound on threads).
C16_WatcherNotBlocked ==
    \A j \in DOMAIN jobs :
        (MatchesQuery(j) /\ j \notin delivered /\ Len(tasks) < MaxThreads)
            => ENABLED on_snapshot(<<[type |-> "ADDED", doc |-> j]>>)

\* C16 (witness): the job started second is finished while the job started
\* first is in a backoff sleep.
C16_Witness ==
    /\ Len(tasks) = 2
    /\ tasks[1].job # tasks[2].job
    /\ tasks[1].pc = "sleep"
    /\ tasks[2].pc = "done"

(***************************************************************************)
(* Credentials                                                             *)
(***************************************************************************)
\* the credential of the job's route is not set
MissingCredential(d) ==
    \/ ProductType(d) \in PodTypes /\ "PRINTFUL_API_KEY" \notin env
    \/ ProductType(d) \in DigitalTypes /\ ~(ShopifyCreds \subseteq env)

\* C17: without the credential of its route a job ends in failed with no
\* outbound call and no retry; a valid job of the other route still reaches
\* its backend, whatever the first route's credentials are.
C17_MissingCredentialFails ==
    \A t \in TaskIds :
        /\ MissingCredential(Doc(t))
              => /\ FailsLocally(t)
                 /\ tasks[t].attempts = 0
                 /\ tasks[t].slept = <<>>
        /\ (ValidJob(Doc(t)) /\ Ended(t) /\ ~tasks[t].raised) => tasks[t].calls >= 1

C17_Witness ==
    \E t \in TaskIds :
        /\ TypeOfTask(t) \in DigitalTypes
        /\ "price" \in DOMAIN Doc(t)
        /\ env = CredNames \ {"SHOPIFY_API_PASSWORD"}
        /\ tasks[t].pc = "done"
        /\ Status(tasks[t].job) = "failed"
        /\ outbound[tasks[t].job] = 0

\* C18: in the retry wrapper only a transport or HTTP-level failure causes
\* another attempt; an attempt that returned a success status with a body that
\* cannot be decoded is the last attempt of its job: every attempt before it
\* failed at the transport or HTTP level, and the worker has returned.
C18_InvalidBodyNotRetried ==
    \A t \in TaskIds :
        tasks[t].badbody >= 1
            => /\ tasks[t].badbody = 1
               /\ tasks[t].attempts = tasks[t].failures + 1
               /\ tasks[t].pc \notin {"sleep", "post"}

\* the status writes of the thread so far were accepted by the store
WritesAccepted(t) ==
    /\ tasks[t].pc # "claim" => tasks[t].claimed
    /\ tasks[t].pc # "crashed"

\* C19: a valid physical-goods job whose status writes are accepted is pending
\* until claimed and processing from the claim to the final write; only the POD
\* worker is invoked, once; every request carries publish = the job's
\* autoPublish, FALSE when the key is absent; and when the remote call succeeds
\* the worker returns True and the job is complete after the final write.
C19_MugScenario ==
    \A t \in TaskIds :
        (TypeOfTask(t) \in PodTypes /\ ValidJob(Doc(t)) /\ WritesAccepted(t))
            => /\ tasks[t].pc = "claim" => Status(tasks[t].job) = "pending"
               /\ tasks[t].pc \notin {"claim", "done"}
                     => Status(tasks[t].job) = "processing"
               /\ tasks[t].pc \notin {"claim", "route"}
                     => tasks[t].invoked = <<"printful">>
               /\ Len(tasks[t].sent) = tasks[t].attempts
               /\ \A k \in DOMAIN tasks[t].sent :
                     tasks[t].sent[k] = ("autoPublish" \in DOMAIN Doc(t)
                                         /\ Doc(t)["autoPublish"])
               /\ (tasks[t].created = 1 /\ tasks[t].badbody = 0)
                     => /\ Ended(t) /\ tasks[t].success
                        /\ tasks[t].pc = "done" => Status(tasks[t].job) = "complete"

C19_Witness ==
    \E t \in TaskIds :
        /\ TypeOfTask(t) = "Mug" /\ ValidJob(Doc(t))
        /\ "autoPublish" \notin DOMAIN Doc(t)
        /\ tasks[t].claimed /\ tasks[t].pc = "done"
        /\ tasks[t].created = 1 /\ tasks[t].badbody = 0
        /\ tasks[t].invoked = <<"printful">>
        /\ tasks[t].sent = <<FALSE>>
        /\ Status(tasks[t].job) = "complete"

\* C20: no write of a thread puts a job in status pending: a job that is not
\* pending is not pending after any step, however many threads process it, and
\* no thread's final write carries pending.
C20_NeverBackToPending ==
    [][/\ \A j \in DOMAIN jobs :
             jobs'[j]["status"] = "pending" => jobs[j]["status"] = "pending"
       /\ \A t \in 1..Len(tasks') : tasks'[t].final # "pending"]_vars

\* two threads of one job have both made their final write and the job is failed
C20_Witness ==
    \E t1 \in TaskIds : \E t2 \in TaskIds \ {t1} :
        /\ tasks[t1].job = tasks[t2].job
        /\ tasks[t1].pc = "done" /\ tasks[t2].pc = "done"
        /\ ~tasks[t1].success /\ ~tasks[t2].success
        /\ Status(tasks[t1].job) = "failed"

\* the fields the Dispatcher may write: the status and the bookkeeping timestamp
BookkeepingKeys == {"status", "updatedAt"}

\* C21: every step that changes a job's status leaves an updatedAt field in the
\* document, and a step that changes an existing job document changes none of
\* its fields but status and updatedAt.
C21_StatusWritesStampUpdatedAt ==
    [][\A j \in DOMAIN jobs :
          jobs'[j] # jobs[j]
              => /\ jobs'[j]["status"] # jobs[j]["status"]
                    => "updatedAt" \in DOMAIN jobs'[j]
                 /\ \A k \in DOMAIN jobs[j] \ BookkeepingKeys :
                       k \in DOMAIN jobs'[j] /\ jobs'[j][k] = jobs[j][k]
                 /\ DOMAIN jobs'[j] \subseteq DOMAIN jobs[j] \cup BookkeepingKeys]_vars

\* the job's status is final
Terminal(j) == j \in DOMAIN jobs /\ Status(j) \in {"complete", "failed"}

\* the store rejected the final write of a thread of the job
FinalWriteRejected(j) == \E t \in TasksOf(j) : tasks[t].pc = "crashed"

\* C22: every thread that was started returns, and every job whose 'added'
\* change was delivered reaches complete or failed unless the store rejected a
\* final write, when every remote attempt returns or raises.
C22_EveryJobTerminates ==
    /\ \A n \in 1..MaxThreads :
          (n \in TaskIds) ~> (n \in TaskIds /\ tasks[n].pc \in {"done", "crashed"})
    /\ \A j \in JobIds :
          (j \in delivered) ~> (Terminal(j) \/ FinalWriteRejected(j))

\* a thread used its whole attempt budget and the job is failed
C22_Witness ==
    \E t \in TaskIds :
        /\ tasks[t].attempts = Retries
        /\ Len(tasks[t].slept) = Retries - 1
        /\ tasks[t].pc = "done"
        /\ Status(tasks[t].job) = "failed"

\* the threads of job j after the step
TasksAfter(j) == {k \in 1..Len(tasks') : tasks'[k].job = j}

\* C23: when the store delivers each 'added' change once, a step that writes a
\* job document starts no thread, a thread is started only for a job that is
\* pending and was never delivered, and no job ever has two threads.
C23_WritesStartNoDispatch ==
    [][/\ jobs' # jobs => Len(tasks') = Len(tasks)
       /\ \A k \in Started :
             /\ Status(tasks'[k].job) = "pending"
             /\ tasks'[k].job \notin delivered
       /\ \A j \in DOMAIN jobs' : Cardinality(TasksAfter(j)) <= 1]_vars

\* both jobs were dispatched once and have left the query, and the store can
\* report the 'removed' change of each
C23_Witness ==
    /\ DOMAIN jobs = JobIds
    /\ \A j \in JobIds :
          /\ Terminal(j)
          /\ Cardinality(TasksOf(j)) = 1
          /\ ENABLED on_snapshot(<<[type |-> "REMOVED", doc |-> j]>>)

\* C24: in a single dispatch a job's final status is failed only if no remote
\* product was created for it: a thread that created one (every response body
\* well formed) does not return False, and its final write does not carry
\* failed.
C24_FailedOnlyIfNothingCreated ==
    \A t \in TaskIds :
        (Ended(t) /\ remote[tasks[t].job] >= 1 /\ tasks[t].badbody = 0)
            => /\ tasks[t].success
               /\ tasks[t].final # "failed"
               /\ tasks[t].pc = "done" => Status(tasks[t].job) = "complete"

\* the product types the claim gives for the Producer's documents
OracleTypes == {"prompt_pack", "automation_kit", "bundle"}

\* thread t has a job of the Producer, never calls a worker and fails locally
ProducerJobFails(t) ==
    ProductType(Doc(t)) \in OracleTypes
        => /\ FailsLocally(t)
           /\ tasks[t].invoked = <<>>
           /\ tasks[t].pc \notin WorkerPcs

\* C25: every document the Producer creates has status pending and a
\* productType in {prompt_pack, automation_kit, bundle}; a thread that
\* processes such a job calls no worker, sends no request, and ends in failed.
C25_ProducerJobsFail ==
    [][/\ \A j \in DOMAIN jobs' \ DOMAIN jobs :
             /\ jobs'[j]["status"] = "pending"
             /\ ProductType(jobs'[j]) \in OracleTypes
       /\ \A t \in 1..Len(tasks') : ProducerJobFails(t)']_vars

C25_Witness ==
    \E t \in TaskIds :
        /\ ProductType(Doc(t)) = "bundle"
        /\ tasks[t].pc = "done"
        /\ outbound[tasks[t].job] = 0
        /\ Status(tasks[t].job) = "failed"

====
